---- MODULE Spec2Model ----
(***************************************************************************)
(* A model of generate_pdf.py: the interactive generator that turns one    *)
(* record of a CSV/JSON file into a PDF through an HTML template.          *)
(*                                                                         *)
(* Text (Python str) is a sequence of Unicode code points, so that         *)
(* concatenation, comparison, sorting and the per-character filename       *)
(* sanitisation are computed as Python computes them.  A Python value is a *)
(* tagged record: PyNone, PyInt(n), PyStr(s), PyList(l), PyDict(f).        *)
(***************************************************************************)
EXTENDS Integers, Sequences, FiniteSets, TLC

(***************************************************************************)
(* Bounds of the model.                                                    *)
(***************************************************************************)
\* longest record sequence given to get_invoices_map on its own
MaxLen == 2
\* most records in a data file read by main
MaxRows == 2
\* most CSV files, and most JSON files, in data/
MaxFiles == 1
\* most templates in templates/
MaxTemplates == 1
\* longest item list given to select_from_list on its own
MaxItems == 3
\* most consecutive invalid inputs at one prompt
MaxInvalid == 2
\* longest identifier text given to the filename sanitisation on its own
MaxIdLen == 2

(***************************************************************************)
(* Python values.                                                          *)
(***************************************************************************)
PyNone == [t |-> "none"]
PyInt(n) == [t |-> "int", n |-> n]
PyStr(s) == [t |-> "str", s |-> s]
PyList(l) == [t |-> "list", l |-> l]
PyDict(f) == [t |-> "dict", f |-> f]

\* isinstance(v, dict), isinstance(v, list)
IsDict(v) == v.t = "dict"
IsList(v) == v.t = "list"

\* bool(v): the truth value Python's `if`, `or` and `not` use
Truthy(v) ==
    CASE v.t = "none" -> FALSE
      [] v.t = "int" -> v.n # 0
      [] v.t = "str" -> v.s # <<>>
      [] v.t = "list" -> v.l # <<>>
      [] v.t = "dict" -> DOMAIN v.f # {}

\* the decimal digits of n >= 0, as code points ("0" is 48)
RECURSIVE DecimalDigits(_)
DecimalDigits(n) ==
    IF n < 10 THEN <<48 + n>>
    ELSE Append(DecimalDigits(n \div 10), 48 + (n % 10))

\* str(n) of an int: a minus sign (45) before the digits of a negative one
IntText(n) == IF n < 0 THEN <<45>> \o DecimalDigits(0 - n) ELSE DecimalDigits(n)

\* str(v) of a text, an int or None ("None" is 78 111 110 101)
StrOf(v) ==
    CASE v.t = "str" -> v.s
      [] v.t = "int" -> IntText(v.n)
      [] v.t = "none" -> <<78, 111, 110, 101>>

\* d.get(key): the value, or None when the key is missing
DictGet(f, key) == IF key \in DOMAIN f THEN f[key] ELSE PyNone

\* a or b
PyOr(a, b) == IF Truthy(a) THEN a ELSE b

\* d[key] = value on a dict held as a function
Put(f, key, value) ==
    [k \in (DOMAIN f) \cup {key} |-> IF k = key THEN value ELSE f[k]]

\* the empty dict {}
EmptyDict == [k \in {} |-> PyNone]

(***************************************************************************)
(* parse_json: the record sequence of a parsed JSON value.                 *)
(***************************************************************************)
WrapperKeys == <<"invoices", "data", "records", "items">>

RECURSIVE parse_json_from(_, _)
parse_json_from(data, k) ==
    IF k > Len(WrapperKeys) THEN <<data>>
    ELSE IF WrapperKeys[k] \in DOMAIN data.f /\ IsList(data.f[WrapperKeys[k]])
         THEN data.f[WrapperKeys[k]].l
         ELSE parse_json_from(data, k + 1)

\* parse_json searching the wrapper keys from the last to the first
RECURSIVE parse_json_backwards_from(_, _)
parse_json_backwards_from(data, k) ==
    IF k < 1 THEN <<data>>
    ELSE IF WrapperKeys[k] \in DOMAIN data.f /\ IsList(data.f[WrapperKeys[k]])
         THEN data.f[WrapperKeys[k]].l
         ELSE parse_json_backwards_from(data, k - 1)

parse_json_backwards(data) ==
    IF IsList(data) THEN data.l
    ELSE IF IsDict(data) THEN parse_json_backwards_from(data, Len(WrapperKeys))
    ELSE <<>>

parse_json(data) ==
    IF IsList(data) THEN data.l
    ELSE IF IsDict(data) THEN parse_json_from(data, 1)
    ELSE <<>>

(***************************************************************************)
(* extract_invoice_id and get_invoices_map.                                *)
(***************************************************************************)
IdKeys == <<"invoice_id", "invoiceid", "id", "invoiceId", "invoice">>

RECURSIVE extract_from(_, _)
extract_from(item, k) ==
    IF k > Len(IdKeys) THEN PyNone
    ELSE IF IsDict(item) /\ IdKeys[k] \in DOMAIN item.f
         THEN PyStr(StrOf(item.f[IdKeys[k]]))
         ELSE extract_from(item, k + 1)

extract_invoice_id(item) == extract_from(item, 1)

\* " — ": a space, an em dash (8212), a space
Dash == <<32, 8212, 32>>

\* the key of a record without an identifier, at 1-based position p
synthetic_label(item, p) ==
    LET idx == IntText(p)
    IN IF IsDict(item)
       THEN LET desc == PyOr(PyOr(PyOr(DictGet(item.f, "product"),
                                       DictGet(item.f, "name")),
                                  DictGet(item.f, "title")),
                             PyStr(<<>>))
            IN IF Truthy(desc) THEN idx \o Dash \o StrOf(desc) ELSE idx
       ELSE idx

\* index_step with the synthetic key, too, inserted only when it is new
index_step_first_wins(invoices, item, p) ==
    LET inv_id == extract_invoice_id(item)
        key == IF Truthy(inv_id) THEN inv_id.s ELSE synthetic_label(item, p)
    IN IF key \notin DOMAIN invoices THEN Put(invoices, key, item) ELSE invoices

\* index_step without the branch for records that have no identifier
index_step_named_only(invoices, item, p) ==
    LET inv_id == extract_invoice_id(item)
    IN IF Truthy(inv_id) /\ inv_id.s \notin DOMAIN invoices
       THEN Put(invoices, inv_id.s, item)
       ELSE invoices

\* one iteration of the loop of get_invoices_map, on the record at position p
index_step(invoices, item, p) ==
    LET inv_id == extract_invoice_id(item)
    IN IF Truthy(inv_id) /\ inv_id.s \notin DOMAIN invoices
       THEN Put(invoices, inv_id.s, item)
       ELSE IF ~Truthy(inv_id)
            THEN Put(invoices, synthetic_label(item, p), item)
            ELSE invoices

RECURSIVE index_from(_, _, _)
index_from(data, p, invoices) ==
    IF p > Len(data) THEN invoices
    ELSE index_from(data, p + 1, index_step(invoices, data[p], p))

get_invoices_map(data) == index_from(data, 1, EmptyDict)

(***************************************************************************)
(* sorted(invoices_map.keys()): texts ordered by code point, as Python     *)
(* orders str.  A text is less than another when it is a proper prefix of  *)
(* it or has the smaller code point at the first difference.               *)
(***************************************************************************)
RECURSIVE StrLess(_, _)
StrLess(a, b) ==
    IF a = <<>> THEN b # <<>>
    ELSE IF b = <<>> THEN FALSE
    ELSE IF a[1] # b[1] THEN a[1] < b[1]
    ELSE StrLess(Tail(a), Tail(b))

RECURSIVE sorted(_)
sorted(S) ==
    IF S = {} THEN <<>>
    ELSE LET least == CHOOSE x \in S : \A y \in S \ {x} : StrLess(x, y)
         IN <<least>> \o sorted(S \ {least})

(***************************************************************************)
(* The output filename.  c.isalnum() is true of every Unicode letter and   *)
(* number, not only of the ASCII ones: of the code points outside ASCII    *)
(* the model samples a superscript two (178), e-acute (233) and the        *)
(* Cyrillic capital Zhe (1046), which are alphanumeric, and the em dash    *)
(* (8212) and the numero sign (8470), which are not.                       *)
(***************************************************************************)
NonAsciiAlnum == {178, 233, 1046}

\* c.isalnum() of one character
IsAlnum(c) == c \in (48..57) \cup (65..90) \cup (97..122) \cup NonAsciiAlnum

\* safe_char that keeps the underscore but not the hyphen
safe_char_no_hyphen(c) == IF IsAlnum(c) \/ c = 95 THEN c ELSE 95

\* c if c.isalnum() or c in "-_" else "_"   ("-" is 45, "_" is 95)
safe_char(c) == IF IsAlnum(c) \/ c \in {45, 95} THEN c ELSE 95

\* "".join(... for c in invoice_id)
safe_id(text) == [i \in 1..Len(text) |-> safe_char(text[i])]

\* f"invoice_{safe_id}.pdf"
output_name(text) ==
    <<105, 110, 118, 111, 105, 99, 101, 95>> \o safe_id(text) \o <<46, 112, 100, 102>>

(***************************************************************************)
(* select_from_list.  The typed line is a text; int(choice.strip()) is a   *)
(* one-element tuple holding the number, or the empty tuple when int()     *)
(* raises ValueError.  The lines of the model use ASCII digits, signs and  *)
(* blanks, without digit-grouping underscores.                             *)
(***************************************************************************)
IsSpace(c) == c \in {9, 10, 11, 12, 13, 32}

RECURSIVE lstrip(_)
lstrip(s) == IF s # <<>> /\ IsSpace(s[1]) THEN lstrip(Tail(s)) ELSE s

RECURSIVE rstrip(_)
rstrip(s) ==
    IF s # <<>> /\ IsSpace(s[Len(s)]) THEN rstrip(SubSeq(s, 1, Len(s) - 1)) ELSE s

strip(s) == rstrip(lstrip(s))

RECURSIVE DigitsValue(_)
DigitsValue(s) ==
    IF s = <<>> THEN 0
    ELSE 10 * DigitsValue(SubSeq(s, 1, Len(s) - 1)) + (s[Len(s)] - 48)

\* int(s): an optional sign (43 is "+", 45 is "-") and one or more digits
ParseInt(text) ==
    LET s == strip(text)
        signed == s # <<>> /\ s[1] \in {43, 45}
        digits == IF signed THEN Tail(s) ELSE s
    IN IF digits # <<>> /\ \A i \in 1..Len(digits) : digits[i] \in 48..57
       THEN IF signed /\ s[1] = 45
            THEN <<0 - DigitsValue(digits)>>
            ELSE <<DigitsValue(digits)>>
       ELSE <<>>

\* the sentinel None, and an index, as results of select_from_list
None == <<>>
Some(i) == <<i>>

\* select_try with the upper limit of the accepted numbers off by one
select_try_one_more(n, choice) ==
    LET num == ParseInt(choice)
    IN IF num = <<>> THEN [ret |-> FALSE]
       ELSE IF num[1] = 0 THEN [ret |-> TRUE, val |-> None]
       ELSE IF 1 <= num[1] /\ num[1] <= n + 1
            THEN [ret |-> TRUE, val |-> Some(num[1] - 1)]
       ELSE [ret |-> FALSE]

\* One pass of the `while True` loop on the line `choice`, for n items:
\* the value returned, or "again" when the loop prints the error and repeats.
select_try(n, choice) ==
    LET num == ParseInt(choice)
    IN IF num = <<>> THEN [ret |-> FALSE]
       ELSE IF num[1] = 0 THEN [ret |-> TRUE, val |-> None]
       ELSE IF 1 <= num[1] /\ num[1] <= n THEN [ret |-> TRUE, val |-> Some(num[1] - 1)]
       ELSE [ret |-> FALSE]

(***************************************************************************)
(* The state.  `unit` names the unit under execution: main, or one of the  *)
(* functions run on its own.                                               *)
(***************************************************************************)
VARIABLES
    unit,
    \* main: its position and its local variables
    pc, data_files, templates, data_idx, template_idx, data, invoices_map,
    invoice_ids, inv_idx, invoice_id, invoice_data, template_data,
    output_filename, status,
    \* main: the last message main printed, and what the run has done so far:
    \* menus shown, selections returned, whether input() was called, and the
    \* calls of load_data, get_invoices_map, render_pdf and open_pdf
    printed, prompts, selections, input_read, load_calls, index_calls, render_calls, pdf_written,
    open_calls, launch_failed,
    \* select_from_list on its own: the number of items, its position, the
    \* value returned, the last line read (in a tuple), and what it has done
    sel_n, sel_pc, sel_result, sel_line, sel_menus, sel_reads, sel_errors,
    \* get_invoices_map on its own: the records, the 1-based position of the
    \* next one, and the dict `invoices` so far
    ix_data, ix_p, ix_map,
    \* parse_json, or the building of the filename, on its own: the argument,
    \* whether the function has been applied, and the result
    fn_arg, fn_done, fn_result

selVars == <<sel_n, sel_pc, sel_result, sel_line, sel_menus, sel_reads, sel_errors>>
ixVars == <<ix_data, ix_p, ix_map>>
fnVars == <<fn_arg, fn_done, fn_result>>

mainVars ==
    <<pc, data_files, templates, data_idx, template_idx, data, invoices_map,
      invoice_ids, inv_idx, invoice_id, invoice_data, template_data,
      output_filename, status, printed, prompts, selections, input_read,
      load_calls, index_calls, render_calls, pdf_written, open_calls,
      launch_failed>>

\* all sequences over S of length at most n
SeqsUpTo(S, n) == UNION {[1..k -> S] : k \in 0..n}

\* the lines typed at a prompt over n items: the numerals from -1 to n + 1,
\* and "", "x", " 1 ", "+1", "00", "1x"
InputLines(n) ==
    {IntText(k) : k \in (0 - 1)..(n + 1)}
        \cup {<<>>, <<120>>, <<32, 49, 32>>, <<43, 49>>, <<48, 48>>, <<49, 120>>}

(***************************************************************************)
(* The contents of the data files of the runs of main.                     *)
(***************************************************************************)
\* elements of a JSON array: {}, "W", {"name": "W"}, {"id": 2},
\* {"invoice_id": ""}, {"invoice_id": "Ж", "title": "W"}
MainRecords ==
    { PyDict(EmptyDict),
      PyStr(<<87>>),
      PyDict("name" :> PyStr(<<87>>)),
      PyDict("id" :> PyInt(2)),
      PyDict("invoice_id" :> PyStr(<<>>)),
      PyDict("invoice_id" :> PyStr(<<1046>>) @@ "title" :> PyStr(<<87>>)) }

\* parsed JSON values: an array, an array under "data", an array under
\* "items" beside a non-list "invoices", a number
MainJsonDocs ==
    {PyList(l) : l \in SeqsUpTo(MainRecords, MaxRows)}
        \cup {PyDict("data" :> PyList(l)) : l \in SeqsUpTo(MainRecords, MaxRows)}
        \cup {PyDict("invoices" :> PyInt(2) @@ "items" :> PyList(l)) :
                 l \in SeqsUpTo(MainRecords, MaxRows)}
        \cup {PyInt(2)}

\* rows of a CSV file with the header id,name: every cell is a text
CsvRows ==
    {PyDict("id" :> PyStr(i) @@ "name" :> PyStr(n)) :
         i \in {<<>>, <<49>>}, n \in {<<>>, <<87>>}}

\* parse_csv: the rows the CSV reader yields
parse_csv_results == SeqsUpTo(CsvRows, MaxRows)

\* load_data of a file with the given suffix, when it does not raise
load_data_results(suffix) ==
    IF suffix = "csv" THEN parse_csv_results
    ELSE {parse_json(d) : d \in MainJsonDocs}

(***************************************************************************)
(* The template context built by main from the selected record.            *)
(***************************************************************************)
\* the list [(k, v) for k, v in d.items()] of the dict d
PyItems(f) == [t |-> "pairs", f |-> f]

\* build_template_data defaulting invoice_id to the record's own identifier
\* field, str(None) when it has none, instead of the key selected
build_template_data_own_id(record, id) ==
    LET copied == IF IsDict(record) THEN record.f ELSE ("data" :> record)
        defaulted == IF "invoice_id" \in DOMAIN copied THEN copied
                     ELSE Put(copied, "invoice_id",
                              PyStr(StrOf(extract_invoice_id(record))))
    IN IF IsDict(record)
       THEN Put(defaulted, "_invoice_items", PyItems(record.f))
       ELSE defaulted

build_template_data(record, id) ==
    LET copied == IF IsDict(record) THEN record.f ELSE ("data" :> record)
        defaulted == IF "invoice_id" \in DOMAIN copied THEN copied
                     ELSE Put(copied, "invoice_id", PyStr(id))
    IN IF IsDict(record)
       THEN Put(defaulted, "_invoice_items", PyItems(record.f))
       ELSE defaulted

(***************************************************************************)
(* main.                                                                   *)
(***************************************************************************)
MainStart(at) ==
    /\ pc = at
    /\ data_files = <<>>
    /\ templates = <<>>
    /\ data_idx = None
    /\ template_idx = None
    /\ data = <<>>
    /\ invoices_map = EmptyDict
    /\ invoice_ids = <<>>
    /\ inv_idx = None
    /\ invoice_id = <<>>
    /\ invoice_data = PyNone
    /\ template_data = EmptyDict
    /\ output_filename = <<>>
    /\ status = <<>>
    /\ printed = "nothing"
    /\ prompts = 0
    /\ selections = 0
    /\ input_read = FALSE
    /\ load_calls = 0
    /\ index_calls = 0
    /\ render_calls = 0
    /\ pdf_written = FALSE
    /\ open_calls = 0
    /\ launch_failed = FALSE

\* print(message) and `return code` of main
Return(code, message) == pc' = "done" /\ status' = <<code>> /\ printed' = message

\* main goes on to the statement at `to`
Goto(to) == pc' = to /\ status' = status

\* an exception leaves main: nothing is returned
Crash == pc' = "crashed" /\ UNCHANGED <<status, printed>>

\* ensure_directories(): the directories exist afterwards, or mkdir raises
Bootstrap ==
    /\ unit = "main" /\ pc = "bootstrap"
    /\ \/ Goto("discover") /\ printed' = printed
       \/ Crash
    /\ UNCHANGED <<unit, selVars, ixVars, fnVars, data_files, templates,
                   data_idx, template_idx, data, invoices_map, invoice_ids,
                   inv_idx, invoice_id, invoice_data, template_data,
                   output_filename, prompts, selections, input_read, load_calls,
                   index_calls, render_calls, pdf_written, open_calls,
                   launch_failed>>

\* Discover with the two guards in the other order
DiscoverTemplatesFirst ==
    /\ unit = "main" /\ pc = "discover"
    /\ \E csv \in 0..MaxFiles, json \in 0..MaxFiles, html \in 0..MaxTemplates :
          /\ data_files' = [i \in 1..csv |-> "csv"] \o [i \in 1..json |-> "json"]
          /\ templates' = [i \in 1..html |-> "html"]
    /\ IF templates' = <<>>
       THEN Return(1, "no_templates") /\ prompts' = prompts
       ELSE IF data_files' = <<>>
            THEN Return(1, "no_data_files") /\ prompts' = prompts
            ELSE Goto("select_data") /\ printed' = "banner" /\ prompts' = prompts + 1
    /\ UNCHANGED <<unit, selVars, ixVars, fnVars, data_idx, template_idx, data,
                   invoices_map, invoice_ids, inv_idx, invoice_id, invoice_data,
                   template_data, output_filename, selections, input_read,
                   load_calls, index_calls, render_calls, pdf_written,
                   open_calls, launch_failed>>

\* discovery, the two guards, the banner, and the menu of the first selection
Discover ==
    /\ unit = "main" /\ pc = "discover"
    /\ \E csv \in 0..MaxFiles, json \in 0..MaxFiles, html \in 0..MaxTemplates :
          /\ data_files' = [i \in 1..csv |-> "csv"] \o [i \in 1..json |-> "json"]
          /\ templates' = [i \in 1..html |-> "html"]
    /\ IF data_files' = <<>>
       THEN Return(1, "no_data_files") /\ prompts' = prompts
       ELSE IF templates' = <<>>
            THEN Return(1, "no_templates") /\ prompts' = prompts
            ELSE Goto("select_data") /\ printed' = "banner" /\ prompts' = prompts + 1
    /\ UNCHANGED <<unit, selVars, ixVars, fnVars, data_idx, template_idx, data,
                   invoices_map, invoice_ids, inv_idx, invoice_id, invoice_data,
                   template_data, output_filename, selections, input_read,
                   load_calls, index_calls, render_calls, pdf_written,
                   open_calls, launch_failed>>

\* one line read by select_from_list over the data files, or end of input
SelectDataFile ==
    /\ unit = "main" /\ pc = "select_data"
    /\ input_read' = TRUE
    /\ \/ \E choice \in InputLines(Len(data_files)) :
             LET r == select_try(Len(data_files), choice)
             IN IF ~r.ret
                THEN UNCHANGED <<pc, status, printed, data_idx, prompts, selections>>
                ELSE /\ data_idx' = r.val
                     /\ selections' = selections + 1
                     /\ IF r.val = None
                        THEN Return(0, "exit") /\ prompts' = prompts
                        ELSE /\ Goto("select_template") /\ printed' = printed
                             /\ prompts' = prompts + 1
       \/ Crash /\ UNCHANGED <<data_idx, prompts, selections>>
    /\ UNCHANGED <<unit, selVars, ixVars, fnVars, data_files, templates,
                   template_idx, data, invoices_map, invoice_ids, inv_idx,
                   invoice_id, invoice_data, template_data, output_filename,
                   load_calls, index_calls, render_calls, pdf_written,
                   open_calls, launch_failed>>

\* SelectTemplate without `if template_idx is None: return 0`
SelectTemplateUnchecked ==
    /\ unit = "main" /\ pc = "select_template"
    /\ input_read' = TRUE
    /\ \/ \E choice \in InputLines(Len(templates)) :
             LET r == select_try(Len(templates), choice)
             IN IF ~r.ret
                THEN UNCHANGED <<pc, status, printed, template_idx, selections>>
                ELSE /\ template_idx' = r.val
                     /\ selections' = selections + 1
                     /\ Goto("load") /\ printed' = printed
       \/ Crash /\ UNCHANGED <<template_idx, selections>>
    /\ UNCHANGED <<unit, selVars, ixVars, fnVars, data_files, templates,
                   data_idx, data, invoices_map, invoice_ids, inv_idx,
                   invoice_id, invoice_data, template_data, output_filename,
                   prompts, load_calls, index_calls, render_calls, pdf_written,
                   open_calls, launch_failed>>

\* one line read by select_from_list over the templates, or end of input
SelectTemplate ==
    /\ unit = "main" /\ pc = "select_template"
    /\ input_read' = TRUE
    /\ \/ \E choice \in InputLines(Len(templates)) :
             LET r == select_try(Len(templates), choice)
             IN IF ~r.ret
                THEN UNCHANGED <<pc, status, printed, template_idx, selections>>
                ELSE /\ template_idx' = r.val
                     /\ selections' = selections + 1
                     /\ IF r.val = None
                        THEN Return(0, "exit")
                        ELSE Goto("load") /\ printed' = printed
       \/ Crash /\ UNCHANGED <<template_idx, selections>>
    /\ UNCHANGED <<unit, selVars, ixVars, fnVars, data_files, templates,
                   data_idx, data, invoices_map, invoice_ids, inv_idx,
                   invoice_id, invoice_data, template_data, output_filename,
                   prompts, load_calls, index_calls, render_calls, pdf_written,
                   open_calls, launch_failed>>

\* load_data of the chosen file and the empty-data guard
Load ==
    /\ unit = "main" /\ pc = "load"
    /\ load_calls' = load_calls + 1
    /\ \/ Return(1, "read_error") /\ data' = data
       \/ \E loaded \in load_data_results(data_files[data_idx[1] + 1]) :
             /\ data' = loaded
             /\ IF loaded = <<>>
                THEN Return(1, "empty_data")
                ELSE Goto("index") /\ printed' = printed
    /\ UNCHANGED <<unit, selVars, ixVars, fnVars, data_files, templates,
                   data_idx, template_idx, invoices_map, invoice_ids, inv_idx,
                   invoice_id, invoice_data, template_data, output_filename,
                   prompts, selections, input_read, index_calls, render_calls,
                   pdf_written, open_calls, launch_failed>>

\* get_invoices_map, the empty-index guard, the sorted identifiers and the
\* menu of the third selection
Index ==
    /\ unit = "main" /\ pc = "index"
    /\ index_calls' = index_calls + 1
    /\ invoices_map' = get_invoices_map(data)
    /\ IF DOMAIN invoices_map' = {}
       THEN Return(1, "empty_index") /\ UNCHANGED <<invoice_ids, prompts>>
       ELSE /\ invoice_ids' = sorted(DOMAIN invoices_map')
            /\ prompts' = prompts + 1
            /\ Goto("select_invoice") /\ printed' = printed
    /\ UNCHANGED <<unit, selVars, ixVars, fnVars, data_files, templates,
                   data_idx, template_idx, data, inv_idx, invoice_id,
                   invoice_data, template_data, output_filename, selections,
                   input_read, load_calls, render_calls, pdf_written,
                   open_calls, launch_failed>>

\* one line read by select_from_list over the identifiers, or end of input
SelectInvoice ==
    /\ unit = "main" /\ pc = "select_invoice"
    /\ input_read' = TRUE
    /\ \/ \E choice \in InputLines(Len(invoice_ids)) :
             LET r == select_try(Len(invoice_ids), choice)
             IN IF ~r.ret
                THEN UNCHANGED <<pc, status, printed, inv_idx, invoice_id,
                                 invoice_data, selections>>
                ELSE /\ inv_idx' = r.val
                     /\ selections' = selections + 1
                     /\ IF r.val = None
                        THEN Return(0, "exit") /\ UNCHANGED <<invoice_id, invoice_data>>
                        ELSE /\ invoice_id' = invoice_ids[r.val[1] + 1]
                             /\ invoice_data' = invoices_map[invoice_id']
                             /\ Goto("build") /\ printed' = printed
       \/ Crash /\ UNCHANGED <<inv_idx, invoice_id, invoice_data, selections>>
    /\ UNCHANGED <<unit, selVars, ixVars, fnVars, data_files, templates,
                   data_idx, template_idx, data, invoices_map, invoice_ids,
                   template_data, output_filename, prompts, load_calls,
                   index_calls, render_calls, pdf_written, open_calls,
                   launch_failed>>

\* the template context and the output filename
Build ==
    /\ unit = "main" /\ pc = "build"
    /\ template_data' = build_template_data(invoice_data, invoice_id)
    /\ output_filename' = output_name(invoice_id)
    /\ Goto("render")
    /\ UNCHANGED <<unit, selVars, ixVars, fnVars, data_files, templates,
                   data_idx, template_idx, data, invoices_map, invoice_ids,
                   inv_idx, invoice_id, invoice_data, printed, prompts,
                   selections, input_read, load_calls, index_calls,
                   render_calls, pdf_written, open_calls, launch_failed>>

\* render_pdf: the PDF is written, or an exception is caught by main
Render ==
    /\ unit = "main" /\ pc = "render"
    /\ render_calls' = render_calls + 1
    /\ \/ pdf_written' = TRUE /\ Goto("launch") /\ printed' = "created"
       \/ pdf_written' = FALSE /\ Return(1, "render_error")
    /\ UNCHANGED <<unit, selVars, ixVars, fnVars, data_files, templates,
                   data_idx, template_idx, data, invoices_map, invoice_ids,
                   inv_idx, invoice_id, invoice_data, template_data,
                   output_filename, prompts, selections, input_read, load_calls,
                   index_calls, open_calls, launch_failed>>

\* Launch with the failure of the viewer not caught inside open_pdf: it
\* reaches the `except` of main, which returns 1
LaunchFatal ==
    /\ unit = "main" /\ pc = "launch"
    /\ open_calls' = open_calls + 1
    /\ launch_failed' \in BOOLEAN
    /\ IF launch_failed' THEN Return(1, "render_error") ELSE Return(0, printed)
    /\ UNCHANGED <<unit, selVars, ixVars, fnVars, data_files, templates,
                   data_idx, template_idx, data, invoices_map, invoice_ids,
                   inv_idx, invoice_id, invoice_data, template_data,
                   output_filename, prompts, selections, input_read, load_calls,
                   index_calls, render_calls, pdf_written>>

\* open_pdf, which catches the failure of the viewer, and `return 0`.  The
\* path of the file just written resolves, so nothing is raised outside the
\* `try` of open_pdf.
Launch ==
    /\ unit = "main" /\ pc = "launch"
    /\ open_calls' = open_calls + 1
    /\ launch_failed' \in BOOLEAN
    /\ Return(0, printed)
    /\ UNCHANGED <<unit, selVars, ixVars, fnVars, data_files, templates,
                   data_idx, template_idx, data, invoices_map, invoice_ids,
                   inv_idx, invoice_id, invoice_data, template_data,
                   output_filename, prompts, selections, input_read, load_calls,
                   index_calls, render_calls, pdf_written>>

NextMain ==
    \/ Bootstrap
    \/ Discover
    \/ SelectDataFile
    \/ SelectTemplate
    \/ Load
    \/ Index
    \/ SelectInvoice
    \/ Build
    \/ Render
    \/ Launch

(***************************************************************************)
(* select_from_list on its own, over 0..MaxItems items.                    *)
(***************************************************************************)
SelectStart(at) ==
    /\ sel_n \in IF at = "idle" THEN {0} ELSE 0..MaxItems
    /\ sel_pc = at
    /\ sel_result = None
    /\ sel_line = <<>>
    /\ sel_menus = 0
    /\ sel_reads = 0
    /\ sel_errors = 0

\* `if not items: return None`, else the menu is printed
SelectCall ==
    /\ unit = "select_from_list" /\ sel_pc = "call"
    /\ IF sel_n = 0
       THEN sel_pc' = "returned" /\ sel_result' = None /\ sel_menus' = sel_menus
       ELSE sel_pc' = "prompt" /\ sel_result' = sel_result /\ sel_menus' = sel_menus + 1
    /\ UNCHANGED <<unit, mainVars, ixVars, fnVars, sel_n, sel_line, sel_reads,
                   sel_errors>>

\* one pass of the loop: a line is read; a value is returned, or the error
\* is printed and the loop repeats
SelectRead ==
    /\ unit = "select_from_list" /\ sel_pc = "prompt"
    /\ \E choice \in InputLines(sel_n) :
          LET r == select_try(sel_n, choice)
          IN /\ r.ret \/ sel_errors < MaxInvalid
             /\ sel_line' = <<choice>>
             /\ sel_reads' = sel_reads + 1
             /\ IF r.ret
                THEN /\ sel_pc' = "returned" /\ sel_result' = r.val
                     /\ sel_errors' = sel_errors
                ELSE /\ sel_pc' = "prompt" /\ sel_result' = sel_result
                     /\ sel_errors' = sel_errors + 1
    /\ UNCHANGED <<unit, mainVars, ixVars, fnVars, sel_n, sel_menus>>

\* input() meets the end of the input: EOFError leaves the function
SelectEndOfInput ==
    /\ unit = "select_from_list" /\ sel_pc = "prompt"
    /\ sel_pc' = "raised"
    /\ UNCHANGED <<unit, mainVars, ixVars, fnVars, sel_n, sel_result, sel_line,
                   sel_menus, sel_reads, sel_errors>>

NextSelect == SelectCall \/ SelectRead \/ SelectEndOfInput

(***************************************************************************)
(* get_invoices_map on its own, one record per step.                       *)
(***************************************************************************)
IdKeySet == {IdKeys[k] : k \in 1..Len(IdKeys)}
DescKeys == <<"product", "name", "title">>

\* the texts "1", "W", "V", "1 — W", "2 — W"
TextOne == <<49>>
TextW == <<87>>
TextV == <<86>>
TextOneW == <<49>> \o Dash \o <<87>>
TextTwoW == <<50>> \o Dash \o <<87>>

\* the records of the sequences indexed
IndexRecords ==
    \* one identifier field, holding "1" or the number 2
    {PyDict(k :> v) : k \in IdKeySet, v \in {PyStr(TextOne), PyInt(2)}}
    \* an identifier field holding "" or null
    \cup {PyDict("id" :> PyStr(<<>>)), PyDict("id" :> PyNone),
          PyDict("invoice_id" :> PyStr(<<>>))}
    \* two identifier fields of neighbouring priority
    \cup {PyDict(IdKeys[k] :> PyStr(TextOne) @@ IdKeys[k + 1] :> PyInt(2)) :
             k \in 1..(Len(IdKeys) - 1)}
    \cup {PyDict(IdKeys[k] :> PyStr(<<>>) @@ IdKeys[k + 1] :> PyStr(TextOne)) :
             k \in 1..(Len(IdKeys) - 1)}
    \* description fields only
    \cup {PyDict(k :> PyStr(TextW)) : k \in {"product", "name", "title"}}
    \cup {PyDict("product" :> PyStr(<<>>)), PyDict("name" :> PyNone)}
    \cup {PyDict(DescKeys[ij[1]] :> PyStr(TextW) @@ DescKeys[ij[2]] :> PyStr(TextV)) :
             ij \in {<<1, 2>>, <<1, 3>>, <<2, 3>>}}
    \cup {PyDict(DescKeys[ij[1]] :> PyStr(<<>>) @@ DescKeys[ij[2]] :> PyStr(TextV)) :
             ij \in {<<1, 2>>, <<1, 3>>, <<2, 3>>}}
    \* an identifier and a description
    \cup {PyDict("id" :> PyStr(TextOne) @@ "name" :> PyStr(TextW)),
          PyDict("id" :> PyStr(<<>>) @@ "name" :> PyStr(TextW)),
          PyDict("invoice" :> PyInt(2) @@ "product" :> PyStr(TextW))}
    \* an identifier that reads like a synthetic key
    \cup {PyDict("id" :> PyStr(TextOneW)), PyDict("id" :> PyStr(TextTwoW))}
    \* no recognised field, and records that are not mappings
    \cup {PyDict(EmptyDict), PyDict("total" :> PyInt(2)), PyStr(TextW), PyNone}

IndexStart(at) ==
    /\ ix_data \in IF at = "idle" THEN {<<>>} ELSE SeqsUpTo(IndexRecords, MaxLen)
    /\ ix_p = 1
    /\ ix_map = EmptyDict

\* one iteration of `for i, item in enumerate(data)`
IndexIter ==
    /\ unit = "get_invoices_map"
    /\ ix_p <= Len(ix_data)
    /\ ix_map' = index_step(ix_map, ix_data[ix_p], ix_p)
    /\ ix_p' = ix_p + 1
    /\ UNCHANGED <<unit, mainVars, selVars, fnVars, ix_data>>

NextIndex == IndexIter

(***************************************************************************)
(* parse_json and the output filename, each on its own.                    *)
(***************************************************************************)
\* elements of JSON arrays: {"id": "1"} and "W"
ElemA == PyDict("id" :> PyStr(TextOne))
ElemB == PyStr(TextW)

\* the values a key of a top-level JSON object holds
JsonValues ==
    {PyList(<<>>), PyList(<<ElemA>>), PyList(<<ElemB, ElemA>>), PyInt(2), PyNone,
     PyDict("data" :> PyList(<<ElemB>>))}

JsonKeys == {WrapperKeys[k] : k \in 1..Len(WrapperKeys)} \cup {"total"}

\* parsed JSON values: arrays, objects over JsonKeys, and scalars
JsonDocs ==
    {PyList(l) : l \in SeqsUpTo({ElemA, ElemB}, MaxLen)}
        \cup {PyDict(f) : f \in UNION {[K -> JsonValues] : K \in SUBSET JsonKeys}}
        \cup {PyInt(2), PyStr(TextW), PyNone}

\* characters of identifiers: A z 7 - _ / : space, the em dash, the numero
\* sign, superscript two, e-acute, Cyrillic Zhe
SampleChars == {65, 122, 55, 45, 95, 47, 58, 32, 8212, 8470, 178, 233, 1046}

FnStart(at) ==
    /\ fn_arg \in CASE at = "parse_json" -> JsonDocs
                    [] at = "output_name" -> SeqsUpTo(SampleChars, MaxIdLen)
                    [] OTHER -> {<<>>}
    /\ fn_done = FALSE
    /\ fn_result = <<>>

ApplyParseJson ==
    /\ unit = "parse_json" /\ ~fn_done
    /\ fn_result' = parse_json(fn_arg)
    /\ fn_done' = TRUE
    /\ UNCHANGED <<unit, mainVars, selVars, ixVars, fn_arg>>

ApplyOutputName ==
    /\ unit = "output_name" /\ ~fn_done
    /\ fn_result' = output_name(fn_arg)
    /\ fn_done' = TRUE
    /\ UNCHANGED <<unit, mainVars, selVars, ixVars, fn_arg>>

(***************************************************************************)
(* The specifications: a run of main, and each function on its own.        *)
(***************************************************************************)
vars == <<unit, mainVars, selVars, ixVars, fnVars>>

InitMain ==
    /\ unit = "main"
    /\ MainStart("bootstrap") /\ SelectStart("idle") /\ IndexStart("idle")
    /\ FnStart("idle")

InitSelect ==
    /\ unit = "select_from_list"
    /\ MainStart("idle") /\ SelectStart("call") /\ IndexStart("idle")
    /\ FnStart("idle")

InitIndex ==
    /\ unit = "get_invoices_map"
    /\ MainStart("idle") /\ SelectStart("idle") /\ IndexStart("run")
    /\ FnStart("idle")

InitJson ==
    /\ unit = "parse_json"
    /\ MainStart("idle") /\ SelectStart("idle") /\ IndexStart("idle")
    /\ FnStart("parse_json")

InitName ==
    /\ unit = "output_name"
    /\ MainStart("idle") /\ SelectStart("idle") /\ IndexStart("idle")
    /\ FnStart("output_name")

Init == InitMain
Next == NextMain
Spec == Init /\ [][Next]_vars

SpecSelect == InitSelect /\ [][NextSelect]_vars
SpecIndex == InitIndex /\ [][NextIndex]_vars
SpecJson == InitJson /\ [][ApplyParseJson]_vars
SpecName == InitName /\ [][ApplyOutputName]_vars

\* a run of main, or get_invoices_map on its own
NextMainOrIndex == NextMain \/ NextIndex
SpecMainOrIndex == (InitMain \/ InitIndex) /\ [][NextMainOrIndex]_vars

(***************************************************************************)
(* How a run of main ended, read from what the run did.                    *)
(***************************************************************************)
\* the last selection that returned, returned the sentinel None
SelectionAborted ==
    \/ selections = 1 /\ data_idx = None
    \/ selections = 2 /\ template_idx = None
    \/ selections = 3 /\ inv_idx = None

RenderSucceeded == render_calls = 1 /\ pdf_written
RenderFailed == render_calls = 1 /\ ~pdf_written
NoDataFilesGuard == data_files = <<>>
NoTemplatesGuard == data_files # <<>> /\ templates = <<>>
LoadFailed == load_calls = 1 /\ index_calls = 0 /\ printed = "read_error"
EmptyDataGuard == load_calls = 1 /\ index_calls = 0 /\ data = <<>> /\ printed = "empty_data"
EmptyIndexGuard == index_calls = 1 /\ DOMAIN invoices_map = {}

\* discovery has run
Discovered ==
    /\ pc \notin {"idle", "bootstrap", "discover"}
    /\ ~(pc = "crashed" /\ prompts = 0)

(***************************************************************************)
(* C1.  A run of main that returns, returns 0 exactly when it ended by a   *)
(* selection returning None or by a successful render, whether or not the  *)
(* viewer could then be launched, and 1 exactly when it ended at one of    *)
(* the guards, a load failure or a render failure; it returns nothing      *)
(* else, and nothing before it is done.                                    *)
(***************************************************************************)
C1_ExitStatus ==
    /\ pc # "done" => status = <<>>
    /\ pc = "done" =>
          /\ status \in {<<0>>, <<1>>}
          /\ status = <<0>> <=> (SelectionAborted \/ RenderSucceeded)
          /\ status = <<1>> <=>
                \/ NoDataFilesGuard \/ NoTemplatesGuard \/ LoadFailed
                \/ EmptyDataGuard \/ EmptyIndexGuard \/ RenderFailed
          /\ RenderSucceeded => open_calls = 1

\* the PDF was written, the viewer failed to start, and main returned 0
C1_Witness ==
    pc = "done" /\ RenderSucceeded /\ launch_failed /\ status = <<0>>

(***************************************************************************)
(* C4.  Once a selection has returned None the run is over: the step that  *)
(* reads the 0 ends main with status 0 and the notice, with no menu shown  *)
(* after it, nothing loaded or indexed after it, and no call of render_pdf *)
(* or open_pdf; and no step follows it.                                    *)
(***************************************************************************)
AbortedCleanly ==
    /\ pc = "done" /\ status = <<0>> /\ printed = "exit"
    /\ prompts = selections
    /\ load_calls = (IF selections = 3 THEN 1 ELSE 0)
    /\ index_calls = (IF selections = 3 THEN 1 ELSE 0)
    /\ render_calls = 0 /\ ~pdf_written /\ open_calls = 0

C4_AbortEndsRun ==
    [][ /\ ~SelectionAborted
        /\ SelectionAborted' => AbortedCleanly' ]_vars

\* the run was abandoned at the menu of templates, after a file was chosen
C4_Witness ==
    pc = "done" /\ selections = 2 /\ data_idx # None /\ template_idx = None

(***************************************************************************)
(* C5.  When discovery finds no data file or no template, main returns 1   *)
(* with no menu shown, no line read, nothing loaded, indexed, rendered or  *)
(* opened; the message is the one about data files whenever there is no    *)
(* data file, also when there is no template either.                       *)
(***************************************************************************)
C5_EmptyDiscovery ==
    (Discovered /\ (data_files = <<>> \/ templates = <<>>)) =>
        /\ pc = "done" /\ status = <<1>>
        /\ prompts = 0 /\ selections = 0 /\ ~input_read
        /\ load_calls = 0 /\ index_calls = 0 /\ render_calls = 0 /\ open_calls = 0
        /\ printed = (IF data_files = <<>> THEN "no_data_files" ELSE "no_templates")

\* discovery found neither a data file nor a template
C5_Witness ==
    Discovered /\ pc = "done" /\ data_files = <<>> /\ templates = <<>>

(***************************************************************************)
(* The key the specification gives a record without an identifier: its     *)
(* 1-based position p, followed by " — " and the description when one of   *)
(* product, name, title (in that priority) holds a non-empty value.        *)
(***************************************************************************)
NonEmptyValue(v) == v \notin {PyNone, PyStr(<<>>)}

ClaimedKey(item, p) ==
    LET named == {i \in 1..Len(DescKeys) :
                     /\ IsDict(item)
                     /\ DescKeys[i] \in DOMAIN item.f
                     /\ NonEmptyValue(item.f[DescKeys[i]])}
    IN IF named = {} THEN IntText(p)
       ELSE LET first == CHOOSE i \in named : \A j \in named : i <= j
            IN IntText(p) \o Dash \o StrOf(item.f[DescKeys[first]])

\* the record has none of the identifier fields
HasNoIdField(item) == ~IsDict(item) \/ \A k \in IdKeySet : k \notin DOMAIN item.f

\* get_invoices_map has gone through all the records
IndexFinished == unit = "get_invoices_map" /\ ix_p > Len(ix_data)

(***************************************************************************)
(* C2.  After get_invoices_map, every text that extract_invoice_id returns *)
(* for some record is a key of the map, bound to the first record, in      *)
(* sequence order, whose identifier is that text.                          *)
(***************************************************************************)
C2_FirstIdentifierWins ==
    IndexFinished =>
        \A p \in 1..Len(ix_data) :
            LET t == extract_invoice_id(ix_data[p])
                holders == {q \in 1..Len(ix_data) : extract_invoice_id(ix_data[q]) = t}
                first == CHOOSE q \in holders : \A r \in holders : q <= r
            IN t # PyNone =>
                  /\ t.s \in DOMAIN ix_map
                  /\ ix_map[t.s] = ix_data[first]

\* The same for the non-empty texts only.  It fails too: in [{"id": 2}, {}]
\* the second record takes the key "2" from the first, and in
\* [{}, {"id": "1"}] the second record finds its key "1" taken by the first.
C2_NonEmptyIdentifierWins ==
    IndexFinished =>
        \A p \in 1..Len(ix_data) :
            LET t == extract_invoice_id(ix_data[p])
                holders == {q \in 1..Len(ix_data) : extract_invoice_id(ix_data[q]) = t}
                first == CHOOSE q \in holders : \A r \in holders : q <= r
            IN (t # PyNone /\ t.s # <<>>) =>
                  /\ t.s \in DOMAIN ix_map
                  /\ ix_map[t.s] = ix_data[first]

C10_IndexNeverEmpty ==
    /\ (unit = "get_invoices_map" /\ ix_p > 1) => DOMAIN ix_map # {}
    /\ (unit = "main" /\ index_calls = 1) =>
          /\ data # <<>>
          /\ DOMAIN invoices_map # {}
          /\ ~EmptyIndexGuard /\ printed # "empty_index"

\* main indexed two records into one entry and went on to the third menu
C10_Witness ==
    /\ unit = "main" /\ pc = "select_invoice"
    /\ Len(data) = 2 /\ Cardinality(DOMAIN invoices_map) = 1

(***************************************************************************)
(* C9.  When main reaches rendering, the identifier is the key the user    *)
(* selected and the record is the one bound to it; when the record has no  *)
(* invoice_id field the context holds that key under invoice_id; and when  *)
(* the record has none of the identifier fields, that key is the synthetic *)
(* key of a position of the data where this record stands.                 *)
(***************************************************************************)
RenderReached == unit = "main" /\ (pc \in {"render", "launch"} \/ render_calls = 1)

C9_ContextIdentifier ==
    RenderReached =>
        /\ invoice_id = invoice_ids[inv_idx[1] + 1]
        /\ invoice_data = invoices_map[invoice_id]
        /\ (~IsDict(invoice_data) \/ "invoice_id" \notin DOMAIN invoice_data.f) =>
              template_data["invoice_id"] = PyStr(invoice_id)
        /\ HasNoIdField(invoice_data) =>
              \E p \in 1..Len(data) :
                  /\ data[p] = invoice_data
                  /\ invoice_id = ClaimedKey(data[p], p)
                  /\ get_invoices_map(data)[invoice_id] = data[p]

\* [{"id": 2}, {}]: the record {} is rendered under its synthetic key "2"
C9_Witness ==
    /\ RenderReached /\ Len(data) = 2
    /\ data[1] = PyDict("id" :> PyInt(2))
    /\ invoice_data = PyDict(EmptyDict)
    /\ invoice_id = <<50>>
    /\ template_data["invoice_id"] = PyStr(<<50>>)

(***************************************************************************)
(* C3.  select_from_list returns None or an index of the items.  Over no   *)
(* items it returns None at once, with no menu and no line read.           *)
(* Otherwise each line read decides: the number 0 returns None, a number k *)
(* of 1..n returns k - 1, and any other line returns nothing, counts one   *)
(* more error message and leaves the loop waiting for the next line,       *)
(* however many invalid lines came before.                                 *)
(***************************************************************************)
\* the lines that spell the number k
Spellings(k) ==
    {IntText(k)}
        \cup (IF k = 1 THEN {<<32, 49, 32>>, <<43, 49>>} ELSE {})
        \cup (IF k = 0 THEN {<<48, 48>>} ELSE {})

\* the number the line spells, if any, among those the model types
NumberSpelled(line, n) == {k \in (0 - 1)..(n + 1) : line \in Spellings(k)}

C3_SelectResult ==
    unit = "select_from_list" =>
        /\ sel_pc = "returned" =>
              \/ sel_result = None
              \/ \E i \in 0..(sel_n - 1) : sel_result = Some(i)
        /\ (sel_n = 0 /\ sel_pc # "call") =>
              sel_pc = "returned" /\ sel_result = None /\ sel_reads = 0 /\ sel_menus = 0
        /\ sel_pc = "prompt" => sel_result = None /\ sel_errors = sel_reads
        /\ (sel_pc = "returned" /\ sel_n > 0) => sel_reads = sel_errors + 1
        /\ sel_reads > 0 =>
              LET num == NumberSpelled(sel_line[1], sel_n)
              IN /\ num = {0} <=> (sel_pc = "returned" /\ sel_result = None)
                 /\ \A k \in 1..sel_n :
                       num = {k} <=> (sel_pc = "returned" /\ sel_result = Some(k - 1))
                 /\ num \cap (0..sel_n) = {} =>
                       /\ sel_pc \in {"prompt", "raised"}
                       /\ sel_result = None
                       /\ sel_errors = sel_reads

\* the last of three items was chosen after two invalid lines
C3_Witness ==
    /\ unit = "select_from_list" /\ sel_pc = "returned"
    /\ sel_n = 3 /\ sel_errors = 2 /\ sel_reads = 3 /\ sel_result = Some(2)

(***************************************************************************)
(* C6.  parse_json of a list is its elements; of a mapping, the list held  *)
(* by the first of invoices, data, records, items that holds a list, or    *)
(* the mapping alone when none does; of anything else, no record.          *)
(***************************************************************************)
ClaimedWrapperKeys == <<"invoices", "data", "records", "items">>

ClaimedRecords(v) ==
    IF v.t = "list" THEN v.l
    ELSE IF v.t = "dict"
         THEN LET holding == {k \in 1..Len(ClaimedWrapperKeys) :
                                 /\ ClaimedWrapperKeys[k] \in DOMAIN v.f
                                 /\ v.f[ClaimedWrapperKeys[k]].t = "list"}
              IN IF holding = {} THEN <<v>>
                 ELSE LET first == CHOOSE k \in holding : \A j \in holding : k <= j
                      IN v.f[ClaimedWrapperKeys[first]].l
         ELSE <<>>

C6_ParseJson ==
    (unit = "parse_json" /\ fn_done) => fn_result = ClaimedRecords(fn_arg)

\* {"invoices": 2, "data": [A], "items": [B, A]} yields [A]
C6_Witness ==
    /\ unit = "parse_json" /\ fn_done
    /\ fn_arg = PyDict("invoices" :> PyInt(2) @@ "data" :> PyList(<<ElemA>>)
                           @@ "items" :> PyList(<<ElemB, ElemA>>))
    /\ fn_result = <<ElemA>>

(***************************************************************************)
(* C8.  The output filename is "invoice_", then the identifier with each   *)
(* character kept or replaced by "_", then ".pdf".                         *)
(***************************************************************************)
\* A-Z a-z 0-9 - _
AsciiKept == (48..57) \cup (65..90) \cup (97..122) \cup {45, 95}

\* the same, and the letters and digits outside ASCII that the model types
UnicodeKept == AsciiKept \cup {178, 233, 1046}

\* the name has the shape invoice_<s>.pdf, with s as long as the identifier
\* and each character of the identifier kept when it is in `kept`
FilenameKeeps(name, id, kept) ==
    /\ Len(name) = Len(id) + 12
    /\ SubSeq(name, 1, 8) = <<105, 110, 118, 111, 105, 99, 101, 95>>
    /\ SubSeq(name, Len(name) - 3, Len(name)) = <<46, 112, 100, 102>>
    /\ \A i \in 1..Len(id) :
          name[8 + i] = (IF id[i] \in kept THEN id[i] ELSE 95)

\* C8 as stated: only A-Z, a-z, 0-9, "-" and "_" are kept
C8_AsciiFilename ==
    (unit = "output_name" /\ fn_done) => FilenameKeeps(fn_result, fn_arg, AsciiKept)

\* C8 as amended: every letter and digit of Unicode is kept, with "-" and "_"
C8_Filename ==
    (unit = "output_name" /\ fn_done) => FilenameKeeps(fn_result, fn_arg, UnicodeKept)

\* the identifier "Ж/" gives invoice_Ж_.pdf
C8_Witness ==
    /\ unit = "output_name" /\ fn_done
    /\ fn_arg = <<1046, 47>>
    /\ fn_result[9] = 1046 /\ fn_result[10] = 95

====
